---- MODULE Spec2Model ----
(***************************************************************************)
(* A model of the two storage backends of crates/random-access-sse         *)
(* (RandomAccessDisk over a local file, RandomAccessSse over an object of  *)
(* the secure storage engine), of SseBuilder::build, and of                *)
(* FeedBuilder::build (src/feed_builder.rs).                               *)
(*                                                                         *)
(* Spec      : one disk backend and one secure backend, constructed over   *)
(*             the same contents and driven by the same calls, until the   *)
(*             backend is dropped; the bytes that have reached the disk    *)
(*             are kept next to the bytes of the file.                     *)
(* SpecSse   : sessions constructing secure backends through one shared,   *)
(*             lock-guarded storage handle.                                *)
(* SpecFeed  : FeedBuilder::build over a storage handle, and once more     *)
(*             over the storage a successful build has left.               *)
(***************************************************************************)
EXTENDS Integers, Sequences, FiniteSets, TLC

VARIABLES
    \* RandomAccessDisk (lib.rs 28-33) and the file behind self.file
    file,        \* the bytes of the file, Len(file) is the file's size
    length,      \* self.length
    auto_sync,   \* self.auto_sync
    durable,     \* the bytes of the file that have reached the disk
    flush,       \* the file.sync_all() of the call made: "none", "ok", "failed"
    \* RandomAccessSse (lib.rs 21-24): the bytes of self.object
    object,
    \* the driver of the two backends
    call,        \* the call the caller has made and not yet taken the answer of
    ret,         \* what the disk backend answered
    sse_ret,     \* what the secure backend answered
    failed,      \* whether a write or truncate of the disk backend has failed
    \* SseBuilder::build (lib.rs 263-278), one builder per session
    storage,     \* the objects of the secure storage engine behind the handle
    lock,        \* who holds the Mutex of Arc<Mutex<Storage>>
    pc,          \* where each session's build stands
    obj_id,      \* self.obj_id of each session's builder
    created,     \* what create_object answered each session
    opens,       \* how many times each session's build called open_object
    built,       \* what each session's build returned
    \* FeedBuilder::build (feed_builder.rs 48-102) and the Storage it owns
    secret_key,  \* self.secret_key: "none", or whether its bytes re-derive
    bitfield_stream, \* the stored bitfield: NoBitfield, or the blocks it commits
    node_stream, \* the stored node records, by the flat index they are kept under
    written,     \* the streams this build has written to
    fb_pc,       \* where build stands
    blocks,      \* tree.blocks()
    roots,       \* the full roots of blocks() * 2
    result,      \* result: Vec<Option<Node>>
    fb_i,        \* the loop's i (0-based)
    feed,        \* what build returned: a Feed, an error, or nothing yet
    first_feed   \* the Feed of an earlier build over this storage, or NoFeed

storeVars == <<file, length, auto_sync, durable, flush, object, call, ret, sse_ret,
              failed>>
buildVars == <<storage, lock, pc, obj_id, created, opens, built>>

feedVars == <<secret_key, bitfield_stream, node_stream, written, fb_pc, blocks,
              roots, result, fb_i, feed, first_feed>>

vars == <<storeVars, buildVars, feedVars>>

----------------------------------------------------------------------------
(* Bounds *)

\* u64 is modelled as an unsigned word of WordBits bits, i64/isize as its
\* signed half.
WordBits == 4
\* The largest file the file system stores (EFBIG / ENOSPC beyond it).
MaxFile == 2
\* The longest slice a write is given.
MaxData == 2
\* The sessions that construct a secure backend, and the object identities
\* they may ask for.
NSessions == 2
NObjIds == 2
\* The most blocks a stored bitfield commits, and the largest subtree byte
\* length a stored node records.
MaxBlocks == 7
MaxNodeLen == 2

Bytes == 0..1

U64Max == 2^WordBits - 1
I64Max == 2^(WordBits - 1) - 1
ISizeMax == I64Max

\* Offsets and lengths the calls are made with: everything around the file,
\* and the ends of the signed and of the unsigned range.
ArgVals == (0..(MaxFile + 1)) \cup {I64Max, I64Max + 1, U64Max - 1, U64Max}

\* The file the disk backend is opened on: a new file, or an existing one.
InitFiles == {<<>>, [i \in 1..MaxFile |-> 1]}
Contents == UNION {[1..n -> Bytes] : n \in 0..MaxFile}
DataVals == UNION {[1..n -> Bytes] : n \in 0..MaxData}

Max(a, b) == IF a > b THEN a ELSE b
Min(a, b) == IF a < b THEN a ELSE b

----------------------------------------------------------------------------
(* Results: Ok(value), an Err returned to the caller, or a panic. *)

Ret(kind, bytes, n, b) == [kind |-> kind, bytes |-> bytes, n |-> n, b |-> b]
Ok == Ret("Ok", <<>>, 0, FALSE)
OkBytes(bytes) == Ret("Ok", bytes, 0, FALSE)
OkU64(n) == Ret("Ok", <<>>, n, FALSE)
OkBool(b) == Ret("Ok", <<>>, 0, b)
BoundsError == Ret("BoundsError", <<>>, 0, FALSE)
IoError == Ret("IoError", <<>>, 0, FALSE)
Panic == Ret("Panic", <<>>, 0, FALSE)
NoRet == Ret("None", <<>>, 0, FALSE)

Call(op, offset, len) == [op |-> op, offset |-> offset, length |-> len]
Idle == Call("none", 0, 0)

----------------------------------------------------------------------------
(* The file behind RandomAccessDisk.file: what the operating system does.  *)

\* write_all(data) at position offset: the bytes land at offset.., a hole
\* before them reads as zero, and writing nothing changes nothing.
file_write_all(f, offset, data) ==
    IF Len(data) = 0 THEN f
    ELSE [i \in 1..Max(Len(f), offset + Len(data)) |->
            IF i > offset /\ i <= offset + Len(data) THEN data[i - offset]
            ELSE IF i <= Len(f) THEN f[i]
            ELSE 0]

\* set_len(n): cut to n bytes, or extend to n bytes with zeros.
file_set_len(f, n) == [i \in 1..n |-> IF i <= Len(f) THEN f[i] ELSE 0]

\* How many bytes one read may transfer when avail bytes lie between the
\* position and the end of the file: 0 only at the end of the file, and
\* otherwise any number from 1 to avail (Read::read may return fewer bytes
\* than asked for).
file_read_counts(avail) == IF avail = 0 THEN {0} ELSE 1..avail

\* vec![0; len] after one file.read at position offset that transferred n
\* bytes: the bytes read, then the zeros the buffer was created with.
read_buffer(f, offset, len, n) ==
    [i \in 1..len |-> IF i <= n THEN f[offset + i] ELSE 0]

\* offset + length on u64: the sum when it fits; when it does not, the sum
\* modulo 2^64 (overflow checks off) or a panic (overflow checks on).
AddOverflow == -1
add_u64(a, b) ==
    IF a + b <= U64Max THEN {a + b} ELSE {(a + b) % (U64Max + 1), AddOverflow}

\* Where an I/O primitive of a call fails, and for write_all how many bytes
\* it had written by then.
IoFaults(steps, data) ==
    {[at |-> "none", k |-> 0]}
        \cup {[at |-> s, k |-> 0] : s \in steps \ {"write_all"}}
        \cup {[at |-> "write_all", k |-> k] : k \in {j \in 0..(Len(data) - 1) : "write_all" \in steps}}

\* file.sync_all(): when it succeeds the bytes of the file have reached the
\* disk; when it fails they may or may not have.
file_sync_all(f, ok) ==
    /\ flush' = IF ok THEN "ok" ELSE "failed"
    /\ durable' \in IF ok THEN {f} ELSE {durable, f}

\* The call returns without having called file.sync_all().
no_sync_all ==
    /\ flush' = "none"
    /\ durable' = durable

----------------------------------------------------------------------------
(* impl RandomAccess for RandomAccessDisk *)

\* A write that records its own end as the length, whatever the length was.
write_new_len_unconditional(len, offset, data) == offset + Len(data)

\* lib.rs 132-135
write_new_len(len, offset, data) ==
    LET new_len == offset + Len(data)
    IN  IF new_len > len THEN new_len ELSE len

RandomAccessDisk_write(offset, data) ==
    IF offset > I64Max
    THEN \* file.seek(..)? fails: the offset is beyond what a file can hold
         /\ ret' = IoError
         /\ no_sync_all
         /\ UNCHANGED <<file, length>>
    ELSE \E io \in IoFaults({"seek", "write_all"} \cup
                              (IF auto_sync THEN {"sync_all"} ELSE {}), data) :
         IF io.at = "seek"
         THEN \* file.seek(..)? fails
              /\ ret' = IoError
              /\ no_sync_all
              /\ UNCHANGED <<file, length>>
         ELSE IF Len(data) > 0 /\ (offset + Len(data) > MaxFile \/ io.at = "write_all")
         THEN \* file.write_all(..)? fails after writing some of the bytes
              LET room == Max(0, Min(Len(data), MaxFile - offset))
                  k == IF io.at = "write_all" THEN Min(io.k, room) ELSE room
              IN  /\ file' = file_write_all(file, offset, SubSeq(data, 1, k))
                  /\ ret' = IoError
                  /\ no_sync_all
                  /\ UNCHANGED length
         ELSE IF io.at = "sync_all"
         THEN \* file.sync_all()? fails: the bytes are written, the length is
              \* not updated
              /\ file' = file_write_all(file, offset, data)
              /\ file_sync_all(file_write_all(file, offset, data), FALSE)
              /\ ret' = IoError
              /\ UNCHANGED length
         ELSE /\ file' = file_write_all(file, offset, data)
              /\ IF auto_sync
                 THEN file_sync_all(file_write_all(file, offset, data), TRUE)
                 ELSE no_sync_all
              /\ length' = write_new_len(length, offset, data)
              /\ ret' = Ok

\* lib.rs 149: the bounds check on the computed sum
read_in_bounds(sum, len) == ~(sum > len)

RandomAccessDisk_read(offset, len) ==
    /\ UNCHANGED <<file, length>>
    /\ no_sync_all
    /\ \E sum \in add_u64(offset, len) :
         IF sum = AddOverflow
         THEN ret' = Panic
         ELSE IF ~read_in_bounds(sum, length)
         THEN ret' = BoundsError
         ELSE IF len > ISizeMax
         THEN \* vec![0; length as usize]: capacity overflow
              ret' = Panic
         ELSE IF offset > I64Max
         THEN \* file.seek(..)? fails
              ret' = IoError
         ELSE \E io \in IoFaults({"seek", "read"}, <<>>) :
                IF io.at # "none"
                THEN ret' = IoError
                ELSE LET avail == Max(0, Min(len, Len(file) - offset))
                     IN  \E n \in file_read_counts(avail) :
                             ret' = OkBytes(read_buffer(file, offset, len, n))

RandomAccessDisk_read_to_writer(offset, len) ==
    /\ ret' = Panic
    /\ no_sync_all
    /\ UNCHANGED <<file, length>>

RandomAccessDisk_del(offset, len) ==
    /\ ret' = Panic
    /\ no_sync_all
    /\ UNCHANGED <<file, length>>

\* A truncate that only ever shrinks.
truncate_len_shrink_only(n) == Min(n, length)

\* lib.rs 181
truncate_len(n) == n

RandomAccessDisk_truncate(n, io) ==
    /\ length' = truncate_len(n)
    /\ IF n > MaxFile \/ io.at = "set_len"
       THEN \* file.set_len(..)? fails
            /\ ret' = IoError
            /\ no_sync_all
            /\ UNCHANGED file
       ELSE IF auto_sync /\ io.at = "sync_all"
       THEN /\ file' = file_set_len(file, n)
            /\ file_sync_all(file_set_len(file, n), FALSE)
            /\ ret' = IoError
       ELSE /\ file' = file_set_len(file, n)
            /\ IF auto_sync
               THEN file_sync_all(file_set_len(file, n), TRUE)
               ELSE no_sync_all
            /\ ret' = Ok

RandomAccessDisk_len ==
    /\ ret' = OkU64(length)
    /\ no_sync_all
    /\ UNCHANGED <<file, length>>

RandomAccessDisk_is_empty ==
    /\ ret' = OkBool(length = 0)
    /\ no_sync_all
    /\ UNCHANGED <<file, length>>

\* A sync_all that flushes under either policy.
sync_all_flushes_always == TRUE

\* lib.rs 198: `if !self.auto_sync`
sync_all_flushes == ~auto_sync

RandomAccessDisk_sync_all(io) ==
    /\ IF sync_all_flushes
       THEN /\ file_sync_all(file, io.at # "sync_all")
            /\ ret' = IF io.at = "sync_all" THEN IoError ELSE Ok
       ELSE /\ no_sync_all
            /\ ret' = Ok
    /\ UNCHANGED <<file, length>>

\* A drop that flushes only what the write policy has left unflushed.
drop_flushes_when_deferred(has_file) == has_file /\ ~auto_sync

\* lib.rs 208: `if let Some(file) = &self.file`, whatever self.auto_sync
drop_flushes(has_file) == has_file

\* impl Drop for RandomAccessDisk (lib.rs 206-217): the result of the
\* flush is discarded by `let _ =`; self.file is Some in every backend that
\* Builder::build returned.
RandomAccessDisk_drop(io) ==
    /\ IF drop_flushes(TRUE)
       THEN file_sync_all(file, io.at # "sync_all")
       ELSE no_sync_all
    /\ ret' = Ok
    /\ UNCHANGED <<file, length>>

----------------------------------------------------------------------------
(* impl RandomAccess for RandomAccessSse *)

RandomAccessSse_write(offset, data) ==
    /\ sse_ret' = Ok
    /\ UNCHANGED object

RandomAccessSse_read(offset, len) ==
    /\ sse_ret' = OkBytes(<<>>)
    /\ UNCHANGED object

RandomAccessSse_read_to_writer(offset, len) ==
    /\ sse_ret' = Panic
    /\ UNCHANGED object

\* A delete that reports success without doing anything.
RandomAccessSse_del_silent(offset, len) ==
    /\ sse_ret' = Ok
    /\ UNCHANGED object

RandomAccessSse_del(offset, len) ==
    /\ sse_ret' = Panic
    /\ UNCHANGED object

RandomAccessSse_truncate(n) ==
    /\ sse_ret' = Ok
    /\ UNCHANGED object

RandomAccessSse_len ==
    /\ sse_ret' = Panic
    /\ UNCHANGED object

RandomAccessSse_is_empty ==
    /\ sse_ret' = Panic
    /\ UNCHANGED object

RandomAccessSse_sync_all ==
    /\ sse_ret' = Ok
    /\ UNCHANGED object

----------------------------------------------------------------------------
(* FeedBuilder::build over the Storage it was given.                        *)

NoBitfield == -1
NoNode == [index |-> -1, length |-> 0]
Node(index, len) == [index |-> index, length |-> len]

\* The largest power of two that is at most n (n >= 1): the loop
\* `while factor * 2 <= tmp { factor *= 2 }` of flat_tree::full_roots.
RECURSIVE full_roots_factor(_, _)
full_roots_factor(factor, tmp) ==
    IF factor * 2 <= tmp THEN full_roots_factor(factor * 2, tmp) ELSE factor

\* flat_tree::full_roots(index, &mut roots): the roots of the full subtrees
\* to the left of the even flat index `index`, in ascending order.
RECURSIVE full_roots_from(_, _)
full_roots_from(tmp, offset) ==
    IF tmp = 0 THEN <<>>
    ELSE LET factor == full_roots_factor(1, tmp)
         IN  <<offset + factor - 1>> \o full_roots_from(tmp - factor, offset + 2 * factor)

full_roots(index) == full_roots_from(index \div 2, 0)

\* roots.iter().position(|&x| x == node.index): the first position (0-based)
\* holding the index, or -1 for None.
position(rs, index) ==
    IF \E k \in 1..Len(rs) : rs[k] = index
    THEN (CHOOSE k \in 1..Len(rs) : rs[k] = index /\ \A j \in 1..(k - 1) : rs[j] # index) - 1
    ELSE -1

\* A fold that counts the nodes instead of adding their lengths.
RECURSIVE byte_length_count(_, _)
byte_length_count(acc, nodes) ==
    IF nodes = <<>> THEN acc
    ELSE byte_length_count(acc + 1, Tail(nodes))

\* roots.iter().fold(0, |acc, node| acc + node.length)
RECURSIVE byte_length_fold(_, _)
byte_length_fold(acc, nodes) ==
    IF nodes = <<>> THEN acc
    ELSE byte_length_fold(acc + Head(nodes).length, Tail(nodes))

\* The node streams a storage committing n blocks may hold: under each full
\* root of n, nothing or a record; a record carries the flat index of one of
\* the full roots or the index 2 * n, which is the index of none of them.
RootKeys(n) == {full_roots(2 * n)[k] : k \in 1..Len(full_roots(2 * n))}
FlatIndices(n) == RootKeys(n) \cup {2 * n}
NodeRecords(n) == {Node(x, l) : x \in FlatIndices(n), l \in 1..MaxNodeLen}
NodeStreams(n) == [RootKeys(n) -> NodeRecords(n) \cup {NoNode}]

NoFeed == [kind |-> "none", roots |-> <<>>, byte_length |-> 0, length |-> 0]
FeedErr(what) == [kind |-> what, roots |-> <<>>, byte_length |-> 0, length |-> 0]
Feed(nodes, byte_length, len) ==
    [kind |-> "Feed", roots |-> nodes, byte_length |-> byte_length, length |-> len]

\* No build is running: the state of the feed variables in Spec and SpecSse.
FeedIdle ==
    /\ secret_key = "none"
    /\ bitfield_stream = NoBitfield
    /\ node_stream = <<>>
    /\ written = {}
    /\ fb_pc = "done"
    /\ blocks = 0
    /\ roots = <<>>
    /\ result = <<>>
    /\ fb_i = 0
    /\ feed = NoFeed
    /\ first_feed = NoFeed

fbLocals == <<blocks, roots, result, fb_i>>
fbStorage == <<bitfield_stream, node_stream>>

Fail(what) ==
    /\ fb_pc' = "failed"
    /\ feed' = FeedErr(what)

\* feed_builder.rs 50: self.storage.write_public_key(&self.public_key).await?
WritePublicKey ==
    /\ fb_pc = "write_public_key"
    /\ \/ /\ written' = written \cup {"public_key"}
          /\ fb_pc' = "secret_key"
          /\ UNCHANGED feed
       \/ /\ Fail("StorageError")
          /\ UNCHANGED written
    /\ UNCHANGED <<secret_key, fbStorage, fbLocals, first_feed, storeVars, buildVars>>

\* feed_builder.rs 54-56: SecretKey::from_bytes(unwrapped_secret_key.as_bytes())?
ValidateSecretKey ==
    /\ fb_pc = "secret_key"
    /\ IF secret_key = "none"
       THEN fb_pc' = "read_bitfield" /\ UNCHANGED feed
       ELSE IF secret_key = "invalid"
       THEN Fail("InvalidKey")
       ELSE fb_pc' = "write_secret_key" /\ UNCHANGED feed
    /\ UNCHANGED <<secret_key, written, fbStorage, fbLocals, first_feed, storeVars, buildVars>>

\* feed_builder.rs 58-60: self.storage.write_secret_key(..).await?
WriteSecretKey ==
    /\ fb_pc = "write_secret_key"
    /\ \/ /\ written' = written \cup {"secret_key"}
          /\ fb_pc' = "read_bitfield"
          /\ UNCHANGED feed
       \/ /\ Fail("StorageError")
          /\ UNCHANGED written
    /\ UNCHANGED <<secret_key, fbStorage, fbLocals, first_feed, storeVars, buildVars>>

\* feed_builder.rs 63-73: the bitfield is read (any Err of read_bitfield gives
\* Bitfield::new()), the tree index is made, the full roots of blocks() * 2
\* are computed and result is filled with None.
\* A mistaken argument of full_roots: the block count itself.
full_roots_index_blocks(n) == n

\* feed_builder.rs 72: the flat index handed to full_roots, `tree.blocks() * 2`
full_roots_index(n) == n * 2

ReadBitfield ==
    /\ fb_pc = "read_bitfield"
    /\ \E read_ok \in BOOLEAN :
         LET n == IF read_ok /\ bitfield_stream # NoBitfield THEN bitfield_stream ELSE 0
             rs == full_roots(full_roots_index(n))
         IN  /\ blocks' = n
             /\ roots' = rs
             /\ result' = [k \in 1..Len(rs) |-> NoNode]
    /\ fb_i' = 0
    /\ fb_pc' = "get_node"
    /\ UNCHANGED <<secret_key, written, fbStorage, feed, first_feed, storeVars, buildVars>>

\* Storage::get_node(index): the record kept under the index, or an error
\* when there is none or the read fails.
get_node(index) ==
    IF index \notin DOMAIN node_stream \/ node_stream[index] = NoNode
    THEN {NoNode}
    ELSE {node_stream[index], NoNode}

\* A mistaken slot: the turn of the loop, whatever index the node carries.
slot_of_turn(idx, i) == i

\* feed_builder.rs 81: `result[idx] = Some(node)`, idx the position of the
\* node's own index among the roots, i the turn of the loop.
slot(idx, i) == idx

\* feed_builder.rs 75-82: one turn of the loop
GetNode ==
    /\ fb_pc = "get_node"
    /\ fb_i < Len(roots)
    /\ \E node \in get_node(roots[fb_i + 1]) :
         IF node = NoNode
         THEN Fail("StorageError") /\ UNCHANGED <<result, fb_i>>
         ELSE LET idx == position(roots, node.index)
              IN  IF idx = -1
                  THEN Fail("Couldnt find idx of node") /\ UNCHANGED <<result, fb_i>>
                  ELSE /\ result' = [result EXCEPT ![slot(idx, fb_i) + 1] = node]
                       /\ fb_i' = fb_i + 1
                       /\ UNCHANGED <<fb_pc, feed>>
    /\ UNCHANGED <<secret_key, written, fbStorage, blocks, roots, first_feed, storeVars, buildVars>>

\* A collection that never finds an unfilled slot.
has_undefined_never(res) == FALSE

\* feed_builder.rs 84-87: collecting Vec<Option<Node>> into Option<Vec<Node>>
\* yields None when a slot is None.
has_undefined(res) == \E k \in 1..Len(res) : res[k] = NoNode

\* feed_builder.rs 84-101: the slots are collected, the byte length summed,
\* the Feed returned.
Collect ==
    /\ fb_pc = "get_node"
    /\ fb_i = Len(roots)
    /\ IF has_undefined(result)
       THEN Fail("Roots contains undefined nodes")
       ELSE /\ feed' = Feed(result, byte_length_fold(0, result), blocks)
            /\ fb_pc' = "done"
    /\ UNCHANGED <<secret_key, written, fbStorage, fbLocals, first_feed, storeVars, buildVars>>

\* StoreIdle: the state of the store variables in SpecSse and SpecFeed.
StoreIdle ==
    /\ file = <<>>
    /\ length = 0
    /\ auto_sync = TRUE
    /\ durable = <<>>
    /\ flush = "none"
    /\ object = <<>>
    /\ call = Idle
    /\ ret = NoRet
    /\ sse_ret = NoRet
    /\ failed = FALSE

----------------------------------------------------------------------------
(* SseBuilder::build: sessions constructing a secure backend through one    *)
(* shared storage handle.                                                   *)

Sessions == 1..NSessions
ObjIds == 1..NObjIds
Absent == 0
\* An object some earlier session created.
Earlier == NSessions + 1

\* Storage::create_object of the secure storage engine: an object that
\* exists is an access conflict; one that does not is created for the
\* session, unless the engine fails for another reason.
create_object(objects, session, id) ==
    IF objects[id] # Absent
    THEN {[res |-> "AccessConflict", objects |-> objects]}
    ELSE {[res |-> "Ok", objects |-> [objects EXCEPT ![id] = session]],
          [res |-> "Other", objects |-> objects]}

\* No builder is running: the state of the build variables in Spec.
BuildIdle ==
    /\ storage = [id \in ObjIds |-> Absent]
    /\ lock = 0
    /\ pc = [s \in Sessions |-> "done"]
    /\ obj_id = [s \in Sessions |-> 1]
    /\ created = [s \in Sessions |-> "none"]
    /\ opens = [s \in Sessions |-> 0]
    /\ built = [s \in Sessions |-> "none"]

\* self.storage.lock(): parking_lot's Mutex, taken when free
StorageLock(s) ==
    /\ pc[s] = "start"
    /\ lock = 0
    /\ lock' = s
    /\ pc' = [pc EXCEPT ![s] = "locked"]
    /\ UNCHANGED <<storage, obj_id, created, opens, built, storeVars, feedVars>>

\* .create_object(self.session, self.obj_id, ..), under the lock
CreateObject(s) ==
    /\ pc[s] = "locked"
    /\ \E out \in create_object(storage, s, obj_id[s]) :
         /\ storage' = out.objects
         /\ created' = [created EXCEPT ![s] = out.res]
    /\ pc' = [pc EXCEPT ![s] = "called"]
    /\ UNCHANGED <<lock, obj_id, opens, built, storeVars, feedVars>>

\* What build returns for create_object's answer: `?` returns every error
\* (lib.rs 272), Ok(RandomAccessSse { .. }) otherwise (lib.rs 274-277).
build_result(res) == IF res = "Ok" THEN "Ok" ELSE "Err"

\* the end of the statement: the guard is dropped, and build returns
BuildReturn(s) ==
    /\ pc[s] = "called"
    /\ lock' = 0
    /\ built' = [built EXCEPT ![s] = build_result(created[s])]
    /\ pc' = [pc EXCEPT ![s] = "done"]
    /\ UNCHANGED <<storage, obj_id, created, opens, storeVars, feedVars>>

\* Each session has a builder for some object identity; the engine may hold
\* objects of earlier sessions.
InitSse ==
    /\ storage \in [ObjIds -> {Absent, Earlier}]
    /\ lock = 0
    /\ pc = [s \in Sessions |-> "start"]
    /\ obj_id \in [Sessions -> ObjIds]
    /\ created = [s \in Sessions |-> "none"]
    /\ opens = [s \in Sessions |-> 0]
    /\ built = [s \in Sessions |-> "none"]
    /\ StoreIdle
    /\ FeedIdle

NextSse ==
    \/ \E s \in Sessions : StorageLock(s)
    \/ \E s \in Sessions : CreateObject(s)
    \/ \E s \in Sessions : BuildReturn(s)

SpecSse == InitSse /\ [][NextSse]_vars

----------------------------------------------------------------------------
(* One run of FeedBuilder::build. *)

\* FeedBuilder::new(..) and .secret_key(..), over a storage that holds a
\* bitfield or none, and node records under the full roots it commits.
InitFeed ==
    /\ secret_key \in {"none", "valid", "invalid"}
    /\ bitfield_stream \in {NoBitfield} \cup (0..MaxBlocks)
    /\ node_stream \in NodeStreams(Max(0, bitfield_stream))
    /\ written = {}
    /\ fb_pc = "write_public_key"
    /\ blocks = 0
    /\ roots = <<>>
    /\ result = <<>>
    /\ fb_i = 0
    /\ feed = NoFeed
    /\ first_feed = NoFeed
    /\ StoreIdle
    /\ BuildIdle

\* FeedBuilder::new(..).build() once more, with the same keys, over the
\* storage that a successful build has left; the first Feed is kept aside.
Rebuild ==
    /\ fb_pc = "done"
    /\ first_feed = NoFeed
    /\ first_feed' = feed
    /\ fb_pc' = "write_public_key"
    /\ blocks' = 0
    /\ roots' = <<>>
    /\ result' = <<>>
    /\ fb_i' = 0
    /\ feed' = NoFeed
    /\ UNCHANGED <<secret_key, written, fbStorage, storeVars, buildVars>>

NextFeed ==
    \/ WritePublicKey
    \/ ValidateSecretKey
    \/ WriteSecretKey
    \/ ReadBitfield
    \/ GetNode
    \/ Collect
    \/ Rebuild

SpecFeed == InitFeed /\ [][NextFeed]_vars

----------------------------------------------------------------------------
(* The two backends, opened over the same contents, given the same calls. *)

\* Builder::build (lib.rs 298-317): the file is opened or created and the
\* length is seeded from its metadata; the secure object holds the same bytes.
Init ==
    /\ file \in InitFiles
    /\ length = Len(file)
    /\ auto_sync \in BOOLEAN
    /\ durable = file
    /\ flush = "none"
    /\ object = file
    /\ call = Idle
    /\ ret = NoRet
    /\ sse_ret = NoRet
    /\ failed = FALSE
    /\ BuildIdle
    /\ FeedIdle

Write ==
    /\ call = Idle
    /\ \E offset \in ArgVals, data \in DataVals :
            /\ RandomAccessDisk_write(offset, data)
            /\ RandomAccessSse_write(offset, data)
            /\ call' = Call("write", offset, Len(data))
            /\ failed' = (failed \/ ret'.kind # "Ok")
            /\ UNCHANGED <<auto_sync, buildVars, feedVars>>

Read ==
    /\ call = Idle
    /\ \E offset \in ArgVals, len \in ArgVals :
            /\ RandomAccessDisk_read(offset, len)
            /\ RandomAccessSse_read(offset, len)
            /\ call' = Call("read", offset, len)
            /\ UNCHANGED <<auto_sync, failed, buildVars, feedVars>>

\* read_to_writer and del ignore their arguments (`_offset`, `_length`):
\* they are drawn from the ends of the word, and the call kept for the
\* caller does not hold them.
IgnoredArgs == {0, 1, U64Max}

ReadToWriter ==
    /\ call = Idle
    /\ \E offset \in IgnoredArgs, len \in IgnoredArgs :
            /\ RandomAccessDisk_read_to_writer(offset, len)
            /\ RandomAccessSse_read_to_writer(offset, len)
            /\ call' = Call("read_to_writer", 0, 0)
            /\ UNCHANGED <<auto_sync, failed, buildVars, feedVars>>

Del ==
    /\ call = Idle
    /\ \E offset \in IgnoredArgs, len \in IgnoredArgs :
            /\ RandomAccessDisk_del(offset, len)
            /\ RandomAccessSse_del(offset, len)
            /\ call' = Call("del", 0, 0)
            /\ UNCHANGED <<auto_sync, failed, buildVars, feedVars>>

Truncate ==
    /\ call = Idle
    /\ \E n \in ArgVals :
         \E io \in IoFaults({"set_len", "sync_all"}, <<>>) :
            /\ RandomAccessDisk_truncate(n, io)
            /\ RandomAccessSse_truncate(n)
            /\ call' = Call("truncate", 0, n)
            /\ failed' = (failed \/ ret'.kind # "Ok")
            /\ UNCHANGED <<auto_sync, buildVars, feedVars>>

LenCall ==
    /\ call = Idle
    /\ RandomAccessDisk_len
    /\ RandomAccessSse_len
    /\ call' = Call("len", 0, 0)
    /\ UNCHANGED <<auto_sync, failed, buildVars, feedVars>>

IsEmpty ==
    /\ call = Idle
    /\ RandomAccessDisk_is_empty
    /\ RandomAccessSse_is_empty
    /\ call' = Call("is_empty", 0, 0)
    /\ UNCHANGED <<auto_sync, failed, buildVars, feedVars>>

SyncAll ==
    /\ call = Idle
    /\ \E io \in IoFaults({"sync_all"}, <<>>) :
            /\ RandomAccessDisk_sync_all(io)
            /\ RandomAccessSse_sync_all
            /\ call' = Call("sync_all", 0, 0)
            /\ UNCHANGED <<auto_sync, failed, buildVars, feedVars>>

\* The backend goes out of scope: no call is made on it afterwards. The
\* secure backend has no Drop of its own.
Drop ==
    /\ call = Idle
    /\ \E io \in IoFaults({"sync_all"}, <<>>) :
            /\ RandomAccessDisk_drop(io)
            /\ sse_ret' = Ok
            /\ call' = Call("drop", 0, 0)
            /\ UNCHANGED <<auto_sync, object, failed, buildVars, feedVars>>

\* The caller takes the answer; the backends are ready for the next call.
Return ==
    /\ call # Idle
    /\ call.op # "drop"
    /\ call' = Idle
    /\ ret' = NoRet
    /\ sse_ret' = NoRet
    /\ flush' = "none"
    /\ UNCHANGED <<file, length, auto_sync, durable, object, failed, buildVars, feedVars>>

Next ==
    \/ Write
    \/ Read
    \/ ReadToWriter
    \/ Del
    \/ Truncate
    \/ LenCall
    \/ IsEmpty
    \/ SyncAll
    \/ Drop
    \/ Return

Spec == Init /\ [][Next]_vars

----------------------------------------------------------------------------
(* Claims about the two backends, under Spec. *)

\* The bytes the file holds in [offset, offset + len), zero past its end.
StoredBytes(offset, len) ==
    [i \in 1..len |-> IF offset + i <= Len(file) THEN file[offset + i] ELSE 0]

\* C1: on the disk backend, after successful writes and truncates only, every
\* read(offset, length) with offset + length <= len() succeeds (unless the
\* file system itself reports an error) and returns exactly `length` bytes,
\* each the byte most recently written at its position, zero where nothing
\* was written.
C1_ReadReturnsWrittenBytes ==
    (/\ ~failed
     /\ call.op = "read"
     /\ call.offset + call.length <= length
     /\ ret.kind # "IoError")
        => ret = OkBytes(StoredBytes(call.offset, call.length))

\* C2: every read(offset, length) with offset + length > the current length
\* returns BoundsError and leaves the tracked length and the stored bytes as
\* they were.
C2_ReadBeyondLengthIsBoundsError ==
    [][(/\ call = Idle
        /\ call'.op = "read"
        /\ call'.offset + call'.length > length)
          => (/\ ret' = BoundsError
              /\ file' = file
              /\ length' = length)]_vars

\* C3: a successful write(offset, data) leaves len() at
\* max(previous length, offset + len(data)): unchanged by a write inside the
\* current length, extended to the write's end otherwise; and len() returns
\* the tracked length.
C3_WriteThenLen ==
    [][/\ (call'.op = "write" /\ ret'.kind = "Ok")
            => length' = Max(length, call'.offset + call'.length)
       /\ (call = Idle /\ call'.op = "len")
            => (ret' = OkU64(length) /\ length' = length)]_vars

C3_Witness ==
    /\ call.op = "write"
    /\ ret.kind = "Ok"
    /\ call.length > 0
    /\ call.offset + call.length < length

\* C4: after a successful truncate(n), len() is exactly n, whether n is
\* below, at or above the previous length; is_empty() answers true exactly
\* when the length is 0, and len() answers the length.
C4_TruncateThenLen ==
    /\ (call.op = "truncate" /\ ret.kind = "Ok") => length = call.length
    /\ call.op = "is_empty" => ret = OkBool(length = 0)
    /\ call.op = "len" => ret = OkU64(length)

C4_Witness ==
    /\ call.op = "truncate"
    /\ ret.kind = "Ok"
    /\ call.length = MaxFile
    /\ file = [i \in 1..MaxFile |-> IF i = 1 THEN 1 ELSE 0]

\* C5: on both backends del and read_to_writer never return success: each
\* call panics, and the tracked length and the stored bytes are unchanged.
C5_DelAndReadToWriterFail ==
    [][(call = Idle /\ call'.op \in {"del", "read_to_writer"})
          => (/\ ret' = Panic
              /\ sse_ret' = Panic
              /\ file' = file
              /\ length' = length
              /\ object' = object)]_vars

C5_Witness ==
    /\ call.op = "del"
    /\ ret = Panic
    /\ sse_ret = Panic
    /\ Len(file) > 0

\* C8: given the same write, read, truncate, len and is_empty calls, the
\* secure backend answers each as the disk backend does (a disk I/O error
\* aside).
C8_SecureAnswersAsDisk ==
    (/\ call.op \in {"write", "read", "truncate", "len", "is_empty"}
     /\ ret.kind # "IoError")
        => sse_ret = ret

----------------------------------------------------------------------------
(* Claims about SseBuilder::build, under SpecSse. *)

\* C6: build first attempts create_object; exactly when that fails with an
\* access conflict it calls open_object, once; any other failure of
\* create_object fails the build without an open.
C6_ConflictFallsBackToOpen ==
    \A s \in Sessions :
        pc[s] = "done" =>
            /\ created[s] = "AccessConflict" => opens[s] = 1
            /\ created[s] # "AccessConflict" => opens[s] = 0
            /\ created[s] = "Other" => built[s] = "Err"

\* C7: when two sessions construct a backend for the same object identity
\* through the shared handle, one creates the object and the other, meeting
\* the conflict, resolves instead of failing.
C7_SecondSessionResolves ==
    \A s, t \in Sessions :
        (/\ s # t
         /\ obj_id[s] = obj_id[t]
         /\ pc[s] = "done"
         /\ pc[t] = "done"
         /\ created[s] = "Ok"
         /\ created[t] = "AccessConflict")
            => built[t] = "Ok"

----------------------------------------------------------------------------
(* Claims about FeedBuilder::build, under SpecFeed. *)

\* C9: when the supplied signing key's bytes fail to re-derive, build fails
\* and by then nothing has been written to storage: neither key.
C9_InvalidKeyFailsBeforeAnyWrite ==
    (fb_pc = "failed" /\ feed.kind = "InvalidKey") => written = {}

\* C10: when the node that storage returns for the i-th expected root carries
\* another flat index than that root's, build fails; so a build that returns
\* a Feed was given, for every expected root, a node carrying its index.
C10_MismatchedIndexFails ==
    fb_pc = "done" =>
        \A k \in 1..Len(roots) : node_stream[roots[k]].index = roots[k]

\* C11: when a full root's node is absent from storage, or a slot is still
\* unfilled after every fetch, build fails and returns no Feed; a build that
\* returns a Feed found a node under every full root, and the Feed holds as
\* many nodes as there are full roots, none of them undefined.
C11_MissingRootFailsBuild ==
    /\ fb_pc = "done" =>
         /\ feed.kind = "Feed"
         /\ Len(feed.roots) = Len(full_roots(2 * blocks))
         /\ \A k \in 1..Len(feed.roots) : feed.roots[k] # NoNode
         /\ \A k \in 1..Len(roots) : node_stream[roots[k]] # NoNode
    /\ fb_pc = "failed" => feed.kind # "Feed"

\* Every fetch succeeded, yet a slot is unfilled, and build has failed.
C11_Witness ==
    /\ fb_pc = "failed"
    /\ feed.kind = "Roots contains undefined nodes"
    /\ fb_i = Len(roots)
    /\ \E k \in 1..Len(result) : result[k] = NoNode

\* The lengths of the first k nodes, added up.
RECURSIVE LengthSum(_, _)
LengthSum(nodes, k) ==
    IF k = 0 THEN 0 ELSE LengthSum(nodes, k - 1) + nodes[k].length

\* C12: on every successful build the Feed's byte_length is the sum of the
\* lengths of exactly the nodes in its root set (0 when there are no blocks),
\* and its length is the tree's block count.
C12_ByteLengthIsSumOfRoots ==
    fb_pc = "done" =>
        /\ feed.roots = result
        /\ feed.byte_length = LengthSum(feed.roots, Len(feed.roots))
        /\ blocks = 0 => feed.byte_length = 0
        /\ feed.length = blocks

\* A Feed over several roots whose lengths are not all one.
C12_Witness ==
    /\ fb_pc = "done"
    /\ Len(feed.roots) >= 2
    /\ feed.byte_length > Len(feed.roots)
    /\ feed.length = bitfield_stream

\* The depth of a flat index: 0 for a leaf (an even index), one more for
\* every trailing one bit.
RECURSIVE Depth(_)
Depth(x) == IF x % 2 = 0 THEN 0 ELSE 1 + Depth(x \div 2)

\* The block indices under the subtree rooted at flat index x: the leaves
\* x - (2^d - 1) .. x + (2^d - 1) of its depth d, a leaf 2 * b being block b.
Leaves(x) == ((x - (2 ^ Depth(x) - 1)) \div 2)..((x + (2 ^ Depth(x) - 1)) \div 2)

\* The fewest full subtrees that cover the blocks a..(n - 1) and nothing
\* else, found by trying every subtree that can start at a.
RECURSIVE MinCover(_, _)
MinCover(a, n) ==
    IF a >= n THEN 0
    ELSE LET sizes == {2 ^ d : d \in {e \in 0..n : a % (2 ^ e) = 0 /\ a + 2 ^ e <= n}}
             rest == {MinCover(a + z, n) : z \in sizes}
         IN  1 + (CHOOSE m \in rest : \A o \in rest : m <= o)

\* C13: the full roots computed from the block count N are a function of N
\* alone, and their subtrees partition the blocks 0..(N - 1): every block
\* below N lies under exactly one root, no root covers a block at or beyond
\* N, and no smaller set of subtree roots covers the blocks.
C13_FullRootsPartitionBlocks ==
    /\ roots = full_roots(2 * blocks)
    /\ \A b \in 0..(blocks - 1) :
         Cardinality({k \in 1..Len(roots) : b \in Leaves(roots[k])}) = 1
    /\ \A k \in 1..Len(roots) : Leaves(roots[k]) \subseteq 0..(blocks - 1)
    /\ Len(roots) = MinCover(0, blocks)

\* The full roots of a stored block count have been computed, three of them
\* (seven blocks need three).
C13_Witness ==
    /\ fb_pc = "get_node"
    /\ blocks = bitfield_stream
    /\ Len(roots) = 3

\* C14: a storage failure during build aborts it; in particular an I/O
\* error while reading a bitfield that exists makes build fail, so a build
\* that returns a Feed over a stored bitfield has read it, and the Feed's
\* block count is the stored bitfield's, never that of an empty bitfield
\* put in its place.
C14_BitfieldReadErrorFailsBuild ==
    (fb_pc = "done" /\ bitfield_stream # NoBitfield) =>
        /\ blocks = bitfield_stream
        /\ feed.length = bitfield_stream

\* C17: on every successful build the Feed's root set holds exactly one
\* node for each expected full root, in ascending order of flat index, and
\* the node in position i carries the flat index of the i-th expected root,
\* whatever storage answered and in whatever order.
C17_RootSetMatchesFullRoots ==
    fb_pc = "done" =>
        /\ Len(feed.roots) = Len(full_roots(2 * blocks))
        /\ \A k \in 1..Len(feed.roots) :
             feed.roots[k].index = full_roots(2 * blocks)[k]
        /\ \A j, k \in 1..Len(feed.roots) :
             j < k => feed.roots[j].index < feed.roots[k].index

\* A Feed built although storage answered the fetch of one root with the
\* node of another.
C17_Witness ==
    /\ fb_pc = "done"
    /\ Len(feed.roots) >= 2
    /\ \E k \in 1..Len(roots) : node_stream[roots[k]].index # roots[k]

\* C20: build never writes the bitfield or the node stream: whether it
\* succeeds or fails, it writes the verifying key and, when one was supplied,
\* the signing key, and nothing else; so a build over the storage that a
\* successful build has left returns a Feed of the same length, byte_length
\* and root set.
C20_BuildWritesOnlyKeys ==
    /\ [][/\ bitfield_stream' = bitfield_stream
          /\ node_stream' = node_stream
          /\ written' \subseteq {"public_key", "secret_key"}
          /\ secret_key = "none" => "secret_key" \notin written']_vars
    /\ []((fb_pc = "done" /\ first_feed # NoFeed) =>
            /\ feed.length = first_feed.length
            /\ feed.byte_length = first_feed.byte_length
            /\ feed.roots = first_feed.roots)

----------------------------------------------------------------------------
(* Further claims about the disk backend, under Spec. *)

\* C18: a write or truncate that returns an error leaves the answers of
\* len() and is_empty() as they were before the call; in particular a
\* truncate whose set-length fails does not change len().
C18_FailedCallKeepsLen ==
    [][(/\ call = Idle
        /\ call'.op \in {"write", "truncate"}
        /\ ret'.kind # "Ok")
            => /\ length' = length
               /\ (length' = 0) = (length = 0)]_vars

\* C19: the read bounds check and the write length update are right over
\* the whole word: when the true sum offset + length is beyond the largest
\* word, the check still refuses the read as out of bounds instead of
\* accepting it on the wrapped sum, and a successful write never records a
\* length below the true end offset + data.len() of the write.
C19_BoundsHoldOverWholeWord ==
    [][/\ (/\ call = Idle
           /\ call'.op = "read"
           /\ call'.offset + call'.length > U64Max)
              => ret' = BoundsError
       /\ (/\ call = Idle
           /\ call'.op = "write"
           /\ ret'.kind = "Ok")
              => length' >= call'.offset + call'.length]_vars

C16_DropFlushes ==
    call.op = "drop" =>
        /\ flush # "none"
        /\ ret = Ok
        /\ flush = "ok" => durable = file

\* A backend with deferred sync, written since it was opened, has been
\* destroyed and its flush succeeded.
C16_Witness ==
    /\ call.op = "drop"
    /\ ~auto_sync
    /\ flush = "ok"
    /\ \E i \in 1..Len(file) : file[i] = 0

====
